---- MODULE Spec2Model ----
(***************************************************************************)
(* A model of bert_nd_grove_2.ipynb: the GloVe store and the averaging     *)
(* vectorizer, BertGloveDataset, collate_fn, BertWithGlove.forward and the *)
(* dev-set evaluation cells (argmax, fixed threshold, threshold sweep).    *)
(*                                                                         *)
(* Numbers: a float is modelled by an exact rational <<num, den>> with     *)
(* den > 0 in lowest terms; float32/float64 rounding is not modelled.      *)
(* A threshold is a whole number of hundredths; a probability is a        *)
(* rational, compared with t by cross-multiplication.                      *)
(* A text is a sequence of one-character strings, " " being whitespace.    *)
(***************************************************************************)
EXTENDS Integers, Sequences, FiniteSets

\* ------------------------------------------------------------------ bounds

\* longest text, in characters
MaxTextLen == 5
\* largest vector dimension drawn for embed_dim / glove_dim
MaxDim == 2
\* largest number of dev examples
MaxDev == 2
\* largest batch handed to collate_fn
MaxBatch == 3
\* largest number of texts in a dataset
MaxTexts == 2
\* largest max_length drawn, in subword tokens
MaxSeqLen == 4
\* largest number of lines in an embedding file
MaxLines == 3

\* ------------------------------------------------------------- arithmetic

Abs(x) == IF x < 0 THEN -x ELSE x

RECURSIVE Gcd(_, _)
Gcd(a, b) == IF b = 0 THEN a ELSE Gcd(b, a % b)

\* the rational n/d (d > 0) in lowest terms
Frac(n, d) ==
    LET g == Gcd(Abs(n), d)
    IN  <<n \div g, d \div g>>

FracLess(p, q) == p[1] * q[2] < q[1] * p[2]

RECURSIVE SumSeq(_)
SumSeq(s) == IF s = <<>> THEN 0 ELSE Head(s) + SumSeq(Tail(s))

\* ------------------------------------------------------------ the texts

Whitespace == " "
Alphabet == {"c", "g", "u", Whitespace}

RECURSIVE SeqsUpTo(_, _)
SeqsUpTo(S, n) ==
    IF n = 0 THEN {<<>>}
    ELSE LET shorter == SeqsUpTo(S, n - 1)
         IN  shorter \cup {Append(s, x) : s \in {t \in shorter : Len(t) = n - 1}, x \in S}

Texts == SeqsUpTo(Alphabet, MaxTextLen)

\* str.split() with no argument: the maximal runs of non-whitespace
\* characters, in order; no empty token
RECURSIVE SplitFrom(_, _, _, _)
SplitFrom(s, i, cur, acc) ==
    IF i > Len(s)
    THEN IF cur = <<>> THEN acc ELSE Append(acc, cur)
    ELSE IF s[i] = Whitespace
         THEN SplitFrom(s, i + 1, <<>>, IF cur = <<>> THEN acc ELSE Append(acc, cur))
         ELSE SplitFrom(s, i + 1, Append(cur, s[i]), acc)

Split(s) == SplitFrom(s, 1, <<>>, <<>>)

\* ------------------------------------------------------------ the store

\* the tokens a store may hold: "c" and "g"; "u" and every longer token are
\* out of vocabulary in every store
VocabKeys == {<<"c">>, <<"g">>}
VecVals == {0, 1}

Vectors(d) == [1..d -> VecVals]

\* the stores whose vectors all have dimension d
StoresOfDim(d) == UNION {[K -> Vectors(d)] : K \in SUBSET VocabKeys}

\* the stores drawn: as load_glove_embeddings builds them from a file whose
\* lines all carry the same number of values
StoreDims == {1, 2}
UniformStores == UNION {StoresOfDim(d) : d \in StoreDims}

\* ------------------------------------------------------- text_to_avg_glove

\* what a call gives back: a value, or the exception it raised
None == "None"
Returned(v) == [raised |-> None, value |-> v]
Raised(e) == [raised |-> e, value |-> <<>>]
NotCalled == Raised("NotCalled")

\* an optional value: Python's None, or a value
NoneValue == [is_none |-> TRUE, v |-> <<>>]
Some(x) == [is_none |-> FALSE, v |-> x]

ValueError == "ValueError"

DefaultEmbedDim == 300

Zeros(n) == [i \in 1..n |-> <<0, 1>>]

\* np.zeros(embed_dim, dtype=np.float32)
ZeroVector(embed_dim) == Zeros(embed_dim)

\* the loop of lines 45-48: the vectors of the tokens found in the store, one
\* per occurrence, in token order
RECURSIVE CollectVectors(_, _)
CollectVectors(tokens, embeddings_dict) ==
    IF tokens = <<>> THEN <<>>
    ELSE LET rest == CollectVectors(Tail(tokens), embeddings_dict)
         IN  IF Head(tokens) \in DOMAIN embeddings_dict
             THEN <<embeddings_dict[Head(tokens)]>> \o rest
             ELSE rest

\* np.mean(vectors, axis=0): a list of arrays of different shapes is no array
NpMean(vectors) ==
    IF \E j \in 1..Len(vectors) : Len(vectors[j]) # Len(vectors[1])
    THEN Raised(ValueError)
    ELSE Returned([i \in 1..Len(vectors[1]) |->
            Frac(SumSeq([j \in 1..Len(vectors) |-> vectors[j][i]]), Len(vectors))])

TextToAvgGloveCountAll(text, embeddings_dict, embed_dim) ==
    LET tokens == Split(text)
        vectors == CollectVectors(tokens, embeddings_dict)
    IN  IF Len(vectors) = 0
        THEN Returned(ZeroVector(embed_dim))
        ELSE Returned([i \in 1..Len(vectors[1]) |->
                Frac(SumSeq([j \in 1..Len(vectors) |-> vectors[j][i]]), Len(tokens))])

TextToAvgGloveFixedZeros(text, embeddings_dict, embed_dim) ==
    LET vectors == CollectVectors(Split(text), embeddings_dict)
    IN  IF Len(vectors) = 0 THEN Returned(Zeros(DefaultEmbedDim)) ELSE NpMean(vectors)

TextToAvgGlove(text, embeddings_dict, embed_dim) ==
    LET tokens == Split(text)
        vectors == CollectVectors(tokens, embeddings_dict)
    IN  IF Len(vectors) = 0
        THEN Returned(ZeroVector(embed_dim))
        ELSE NpMean(vectors)

\* ------------------------------------------------- the evaluation cells

\* the logits the model gives an example, one per class
LogitVals == {-1, 0, 1}

\* exp(x), in thousandths
ExpMilli(x) == CASE x = -1 -> 368 [] x = 0 -> 1000 [] x = 1 -> 2718

\* torch.softmax(logits, dim=1)[:, 1] of one row
SoftmaxClass1(row) == Frac(ExpMilli(row[2]), ExpMilli(row[1]) + ExpMilli(row[2]))

NpArgmaxLast(row) ==
    (CHOOSE k \in 1..Len(row) :
        /\ \A j \in 1..Len(row) : row[j] <= row[k]
        /\ \A j \in (k + 1)..Len(row) : row[j] < row[k]) - 1

\* np.argmax of one row: the (0-based) index of the first maximum
NpArgmax(row) ==
    (CHOOSE k \in 1..Len(row) :
        /\ \A j \in 1..Len(row) : row[j] <= row[k]
        /\ \A j \in 1..(k - 1) : row[j] < row[k]) - 1

PredictAtStrict(probs, t) ==
    [i \in 1..Len(probs) |-> IF probs[i][1] * 100 > t * probs[i][2] THEN 1 ELSE 0]

\* (probs >= t).astype(int); t in hundredths
PredictAt(probs, t) ==
    [i \in 1..Len(probs) |-> IF probs[i][1] * 100 >= t * probs[i][2] THEN 1 ELSE 0]

Count(S) == Cardinality(S)

\* sklearn's recall of the positive class, as classification_report prints
\* it; 0.0 when there is no true sample
RecallScore(y_true, y_pred) ==
    LET tp == Count({i \in 1..Len(y_true) : y_true[i] = 1 /\ y_pred[i] = 1})
        fn == Count({i \in 1..Len(y_true) : y_true[i] = 1 /\ y_pred[i] = 0})
    IN  IF tp + fn = 0 THEN <<0, 1>> ELSE Frac(tp, tp + fn)

\* sklearn's f1_score for the positive class; 0.0 when it is ill-defined
F1Score(y_true, y_pred) ==
    LET tp == Count({i \in 1..Len(y_true) : y_true[i] = 1 /\ y_pred[i] = 1})
        fp == Count({i \in 1..Len(y_true) : y_true[i] = 0 /\ y_pred[i] = 1})
        fn == Count({i \in 1..Len(y_true) : y_true[i] = 1 /\ y_pred[i] = 0})
    IN  IF tp = 0 THEN <<0, 1>> ELSE Frac(2 * tp, 2 * tp + fp + fn)

\* np.arange(0.05, 0.5, 0.01), in hundredths
SweepStart == 5
SweepStop == 50
SweepStep == 1
Candidates ==
    [k \in 1..((SweepStop - SweepStart + SweepStep - 1) \div SweepStep) |->
        SweepStart + (k - 1) * SweepStep]

InitialBestF1 == <<0, 1>>
InitialBestT == 50

\* the loop of lines 639-644 from candidate i on, f1s[i] being the f1 of line
\* 641 for candidate i; gives <<best_f1, best_t>>
RECURSIVE SweepFrom(_, _, _, _)
SweepFrom(i, f1_best, t_best, f1s) ==
    IF i > Len(Candidates) THEN <<f1_best, t_best>>
    ELSE IF FracLess(f1_best, f1s[i])
         THEN SweepFrom(i + 1, f1s[i], Candidates[i], f1s)
         ELSE SweepFrom(i + 1, f1_best, t_best, f1s)

\* lines 637-644
Sweep(probs, y_true) ==
    SweepFrom(1, InitialBestF1, InitialBestT,
              [i \in DOMAIN Candidates |-> F1Score(y_true, PredictAt(probs, Candidates[i]))])

\* the thresholds the notebook tries in the dev cell ("you can tune")
TunedThresholds == {22, 30, 50}

\* the probabilities a softmax can give an example, the ends 0 and 1 (which
\* float32 reaches) included
ProbVals == {<<0, 1>>, <<1, 4>>, <<1, 2>>, <<1, 1>>}

\* the thresholds the rule is tried at, in hundredths: 0.0, 0.25, 0.5, 1.0
\* and 1.01, which is above every probability
RuleThresholds == {0, 25, 50, 100, 101}

\* ------------------------------------------------ the test prediction cell

\* the rows of test_unlabeled.tsv after line 99: PMID (read as str) and text
TestPmids == {"007", "42"}
TestTexts == {<<"c">>, <<"u">>}
TestRecords == [PMID : TestPmids, text : TestTexts]

\* a trained model in eval mode: the logits it gives the example built from
\* a text (the tokenizer and the store being fixed)
TrainedModels == [TestTexts -> [1..2 -> LogitVals]]

TrainerPredictReversed(model, the_texts) ==
    [i \in 1..Len(the_texts) |-> model[the_texts[Len(the_texts) + 1 - i]]]

\* trainer.predict(test_dataset).predictions: one row of logits per example,
\* in dataset order (the prediction loop does not shuffle)
TrainerPredict(model, the_texts) ==
    [i \in 1..Len(the_texts) |-> model[the_texts[i]]]

\* line 592
FinalThreshold == 30

\* how to_csv writes an integer label
LabelStr(l) == IF l = 1 THEN "1" ELSE "0"

\* df[["PMID", "Label"]].to_csv(path, index=False): the header, then one
\* line per row of the frame, in frame order
ToCsv(df) ==
    [header |-> <<"PMID", "Label">>,
     rows |-> [i \in 1..Len(df) |-> <<df[i].PMID, LabelStr(df[i].Label)>>]]

\* ------------------------------------------------------------- collate_fn

KeyError == "KeyError"
RuntimeError == "RuntimeError"

\* the special token ids of bert-base-uncased
PadId == 0
ClsId == 101
SepId == 102

\* the examples a batch is drawn from: dicts as __getitem__ builds them, of
\* one shape, with or without the "labels" key
BatchItems ==
    LET ids == {<<ClsId, 10, SepId>>, <<ClsId, SepId, PadId>>}
        unlabeled == {[input_ids |-> i, attention_mask |-> [k \in 1..3 |-> IF i[k] = PadId THEN 0 ELSE 1],
                       glove_emb |-> g] : i \in ids, g \in {<<<<0, 1>>>>, <<<<1, 1>>>>}}
    IN  unlabeled \cup
        {[input_ids |-> x.input_ids, attention_mask |-> x.attention_mask,
          glove_emb |-> x.glove_emb, labels |-> l] : x \in unlabeled, l \in {0, 1}}

\* torch.stack: the rows in list order; an empty list, or rows of different
\* shapes, raise
StackOk(rows) ==
    /\ rows # <<>>
    /\ \A i \in 1..Len(rows) : Len(rows[i]) = Len(rows[1])

CollateFnLabelsReversed(batch) ==
    LET n == Len(batch)
        rows == [input_ids |-> [i \in 1..n |-> batch[i].input_ids],
                 attention_mask |-> [i \in 1..n |-> batch[i].attention_mask],
                 glove_emb |-> [i \in 1..n |-> batch[i].glove_emb]]
    IN  IF "labels" \notin DOMAIN batch[1]
        THEN Returned([input_ids |-> rows.input_ids, attention_mask |-> rows.attention_mask,
                       glove_emb |-> rows.glove_emb, labels |-> NoneValue])
        ELSE IF \E i \in 1..n : "labels" \notin DOMAIN batch[i]
        THEN Raised("KeyError")
        ELSE Returned([input_ids |-> rows.input_ids, attention_mask |-> rows.attention_mask,
                       glove_emb |-> rows.glove_emb,
                       labels |-> Some([i \in 1..n |-> batch[n + 1 - i].labels])])

CollateFn(batch) ==
    LET n == Len(batch)
        input_ids == [i \in 1..n |-> batch[i].input_ids]
        attention_mask == [i \in 1..n |-> batch[i].attention_mask]
        glove_emb == [i \in 1..n |-> batch[i].glove_emb]
    IN  IF ~(StackOk(input_ids) /\ StackOk(attention_mask) /\ StackOk(glove_emb))
        THEN Raised(RuntimeError)
        ELSE IF "labels" \notin DOMAIN batch[1]
        THEN Returned([input_ids |-> input_ids, attention_mask |-> attention_mask,
                       glove_emb |-> glove_emb, labels |-> NoneValue])
        ELSE IF \E i \in 1..n : "labels" \notin DOMAIN batch[i]
        THEN Raised(KeyError)
        ELSE Returned([input_ids |-> input_ids, attention_mask |-> attention_mask,
                       glove_emb |-> glove_emb,
                       labels |-> Some([i \in 1..n |-> batch[i].labels])])

\* ------------------------------------------------------ BertGloveDataset

IndexError == "IndexError"

Min(a, b) == IF a < b THEN a ELSE b

\* the subword tokenizer, one piece per character: a word's first character
\* and its later ones ("##x") have different ids
PieceId(ch, continues) ==
    (CASE ch = "c" -> 10 [] ch = "g" -> 11 [] OTHER -> 12) + (IF continues THEN 20 ELSE 0)

RECURSIVE WordPiecesFrom(_, _)
WordPiecesFrom(s, i) ==
    IF i > Len(s) THEN <<>>
    ELSE IF s[i] = Whitespace THEN WordPiecesFrom(s, i + 1)
    ELSE <<PieceId(s[i], i > 1 /\ s[i - 1] # Whitespace)>> \o WordPiecesFrom(s, i + 1)

WordPieces(s) == WordPiecesFrom(s, 1)

TokenizerNoTruncation(s, max_length) ==
    LET real == <<ClsId>> \o WordPieces(s) \o <<SepId>>
        n == IF Len(real) > max_length THEN Len(real) ELSE max_length
    IN  [input_ids |-> [k \in 1..n |-> IF k <= Len(real) THEN real[k] ELSE PadId],
         attention_mask |-> [k \in 1..n |-> IF k <= Len(real) THEN 1 ELSE 0]]

\* tokenizer(text, padding="max_length", truncation=True, max_length=...):
\* [CLS], the pieces that fit, [SEP], then [PAD] up to max_length
Tokenizer(s, max_length) ==
    LET pieces == WordPieces(s)
        real == <<ClsId>> \o SubSeq(pieces, 1, Min(Len(pieces), max_length - 2)) \o <<SepId>>
    IN  [input_ids |-> [k \in 1..max_length |-> IF k <= Len(real) THEN real[k] ELSE PadId],
         attention_mask |-> [k \in 1..max_length |-> IF k <= Len(real) THEN 1 ELSE 0]]

\* the texts of a dataset: "", "c", "u c", "cgu" (0, 1, 2, 3 pieces)
DatasetTexts == {<<>>, <<"c">>, <<"u", " ", "c">>, <<"c", "g", "u">>}

\* the stores of a dataset: "c" alone, with a vector of ones
DatasetStores == {st \in UniformStores :
                    /\ DOMAIN st = {<<"c">>}
                    /\ \A i \in DOMAIN st[<<"c">>] : st[<<"c">>][i] = 1}

\* BertGloveDataset.__init__: the object built, or the exception of a
\* text_to_avg_glove call
DatasetNew(the_texts, the_labels, the_store, the_max_length, the_glove_dim) ==
    LET embs == [i \in 1..Len(the_texts) |->
                    TextToAvgGlove(the_texts[i], the_store, the_glove_dim)]
    IN  IF \E i \in 1..Len(the_texts) : embs[i].raised # None
        THEN Raised(ValueError)
        ELSE Returned([glove_embs |-> [i \in 1..Len(the_texts) |-> embs[i].value],
                       encodings |-> [i \in 1..Len(the_texts) |->
                                        Tokenizer(the_texts[i], the_max_length)]])

\* BertGloveDataset.__getitem__(idx), idx counted from 0
DatasetGetItem(self, the_labels, idx) ==
    LET enc == self.encodings[idx + 1]
        emb == self.glove_embs[idx + 1]
    IN  IF the_labels.is_none
        THEN Returned([input_ids |-> enc.input_ids, attention_mask |-> enc.attention_mask,
                       glove_emb |-> emb])
        ELSE IF idx + 1 > Len(the_labels.v)
        THEN Raised(IndexError)
        ELSE Returned([input_ids |-> enc.input_ids, attention_mask |-> enc.attention_mask,
                       glove_emb |-> emb, labels |-> the_labels.v[idx + 1]])

\* ------------------------------------------------- load_glove_embeddings

\* the lines of a file: "c 1 0", "g 0 1", "g 1", "c", "g u 1", "" and " "
FileLines ==
    {<<"c", " ", "1", " ", "0">>, <<"g", " ", "0", " ", "1">>, <<"g", " ", "1">>,
     <<"c">>, <<"g", " ", "u", " ", "1">>, <<>>, <<" ">>}

Digits == {"0", "1"}

IsNumeric(field) == field # <<>> /\ \A k \in 1..Len(field) : field[k] \in Digits

\* the value of a string of digits
RECURSIVE ParseFloat(_)
ParseFloat(field) ==
    IF field = <<>> THEN 0
    ELSE 10 * ParseFloat(SubSeq(field, 1, Len(field) - 1))
         + (IF field[Len(field)] = "1" THEN 1 ELSE 0)

\* lines 33-36 on one line: the dict with the line's entry put in, or the
\* exception raised
LoadLine(embs, line) ==
    LET values == Split(line)
    IN  IF values = <<>> THEN Raised(IndexError)
        ELSE IF \E k \in 2..Len(values) : ~IsNumeric(values[k])
        THEN Raised(ValueError)
        ELSE LET word == values[1]
                 vector == [k \in 1..(Len(values) - 1) |-> ParseFloat(values[k + 1])]
             IN  Returned([w \in DOMAIN embs \cup {word} |->
                              IF w = word THEN vector ELSE embs[w]])

\* load_glove_embeddings on a whole file: lines 30-37
RECURSIVE LoadFrom(_, _, _)
LoadFrom(file, i, embs) ==
    IF i > Len(file) THEN Returned(embs)
    ELSE LET r == LoadLine(embs, file[i])
         IN  IF r.raised # None THEN r ELSE LoadFrom(file, i + 1, r.value)

LoadGloveEmbeddings(file) == LoadFrom(file, 1, <<>>)

\* the stores a load of a file of 0..MaxLines lines returns
LoadedStores ==
    LET files == UNION {[1..n -> FileLines] : n \in 0..MaxLines}
    IN  {LoadGloveEmbeddings(f).value : f \in {g \in files : LoadGloveEmbeddings(g).raised = None}}

\* ----------------------------------------------- the store as objects

\* a dict of arrays in memory: dict gives each token the id of its array,
\* heap gives each array its contents
StoreObjects(st) ==
    LET k == Cardinality(DOMAIN st)
        ids == CHOOSE f \in [DOMAIN st -> 1..k] : \A a, b \in DOMAIN st : f[a] = f[b] => a = b
    IN  [dict |-> ids,
         heap |-> [r \in 1..k |-> st[CHOOSE w \in DOMAIN st : ids[w] = r]]]

\* the texts vectorized against the loaded store: those of a dataset, and
\* "c g", whose two tokens may both be in the store
StoreTexts == DatasetTexts \cup {<<"c", " ", "g">>}

\* the id a newly allocated array gets
Fresh(hp) ==
    IF DOMAIN hp = {} THEN 1
    ELSE (CHOOSE r \in DOMAIN hp : \A q \in DOMAIN hp : q <= r) + 1

Alloc(hp, contents) ==
    [r \in DOMAIN hp \cup {Fresh(hp)} |-> IF r = Fresh(hp) THEN contents ELSE hp[r]]

\* the arrays no name refers to any more are freed: the dict's stay
Compact(m) ==
    [dict |-> m.dict,
     heap |-> [r \in {m.dict[w] : w \in DOMAIN m.dict} |-> m.heap[r]]]

DictGetDefaultInsert(m, token) ==
    IF token \in DOMAIN m.dict
    THEN [m |-> m, found |-> TRUE, ref |-> m.dict[token]]
    ELSE [m |-> [dict |-> [w \in DOMAIN m.dict \cup {token} |->
                             IF w = token THEN Fresh(m.heap) ELSE m.dict[w]],
                 heap |-> Alloc(m.heap, <<>>)],
          found |-> FALSE, ref |-> 0]

\* lines 46-47: `token in embeddings_dict`, then embeddings_dict[token]; a
\* miss leaves the dict as it is
DictGet(m, token) ==
    IF token \in DOMAIN m.dict
    THEN [m |-> m, found |-> TRUE, ref |-> m.dict[token]]
    ELSE [m |-> m, found |-> FALSE, ref |-> 0]

\* the loop of lines 45-48 on objects: the ids appended to `vectors`
RECURSIVE CollectRefs(_, _, _)
CollectRefs(tokens, m, refs) ==
    IF tokens = <<>> THEN [m |-> m, refs |-> refs]
    ELSE LET g == DictGet(m, Head(tokens))
         IN  CollectRefs(Tail(tokens), g.m, IF g.found THEN Append(refs, g.ref) ELSE refs)

\* text_to_avg_glove on objects: np.zeros and np.mean allocate the array
\* they give back
TextToAvgGloveObj(text_arg, m, dim) ==
    LET c == CollectRefs(Split(text_arg), m, <<>>)
        vectors == [j \in 1..Len(c.refs) |-> c.m.heap[c.refs[j]]]
        r == IF Len(c.refs) = 0 THEN Returned(ZeroVector(dim)) ELSE NpMean(vectors)
    IN  IF r.raised # None
        THEN [m |-> c.m, result |-> r]
        ELSE [m |-> [dict |-> c.m.dict, heap |-> Alloc(c.m.heap, r.value)],
              result |-> Returned(Fresh(c.m.heap))]

\* lines 154-156: self.glove_embs, the arrays of the texts in order
RECURSIVE GloveEmbsFrom(_, _, _, _)
GloveEmbsFrom(the_texts, m, dim, refs) ==
    IF the_texts = <<>> THEN [m |-> m, result |-> Returned(refs)]
    ELSE LET c == TextToAvgGloveObj(Head(the_texts), m, dim)
         IN  IF c.result.raised # None
             THEN [m |-> c.m, result |-> c.result]
             ELSE GloveEmbsFrom(Tail(the_texts), c.m, dim, Append(refs, c.result.value))

\* ------------------------------------------------- BertWithGlove.forward

HiddenSize == 768
FallbackGloveDim == 300
NumLabels == 2

\* the static dimensions a model is configured with, and the widths of the
\* glove_emb tensors handed to forward
GloveDims == {50, 100, 200, 300}

\* forward on a batch of batch_size rows: glove_shape is None or the shape
\* of glove_emb; gives the shapes of the concatenation and of the logits and
\* whether a loss is computed, or the exception of the linear layer
Forward(config_glove_dim, batch_size, glove_shape, has_labels) ==
    LET pooled_cols == HiddenSize
        glove_cols == IF glove_shape.is_none THEN FallbackGloveDim ELSE glove_shape.v[2]
        combined_cols == pooled_cols + glove_cols
        in_features == HiddenSize + config_glove_dim
    IN  IF combined_cols # in_features
        THEN Raised(RuntimeError)
        ELSE Returned([logits |-> <<batch_size, NumLabels>>,
                       combined |-> <<batch_size, combined_cols>>,
                       loss |-> has_labels])

\* ------------------------------------------------------------- the state

VARIABLES
    \* one call of text_to_avg_glove
    text, embeddings_dict, embed_dim, avg, vec_pc,
    \* the dev evaluation: what trainer.predict(dev_dataset) gives, the dev
    \* labels, and the names the three evaluation cells assign
    pred_out, y_dev, dev_logits, y_pred_dev, dev_probs, threshold,
    y_pred_dev_custom, best_f1, best_t, cells_run,
    \* one call of collate_fn
    batch, collated, collate_pc,
    \* one BertGloveDataset: the arguments of __init__, the object, and what
    \* __getitem__ gave for the indices asked so far
    texts, labels, glove_dict, max_length, glove_dim, dataset, items, ds_pc,
    \* one load_glove_embeddings call: the file, the lines read, the dict
    glove_file, lines_read, embeddings, load_raised, load_pc,
    \* one BertWithGlove model and one forward call
    model_glove_dim, fwd_batch_size, fwd_glove_emb, fwd_labels, fwd_out, fwd_pc,
    \* the decision rule (probs >= t).astype(int) on one set of examples:
    \* the probabilities, the labels, and the predictions per threshold tried
    rule_probs, rule_y, rule_pred,
    \* the test prediction cell: the test frame, the trained model, and the
    \* names the cell assigns; csv is the file written
    df_test, trained_model, test_logits, test_probs, final_threshold, csv, pred_pc,
    \* the loaded store glove_dict as objects: the dict (token -> array), the
    \* arrays' contents by object id, and the ids of the arrays the last
    \* call gave back; store_after_load keeps what load returned
    glove_store, heap, returned, store_after_load, store_pc

vecVars == <<text, embeddings_dict, embed_dim, avg, vec_pc>>
evalVars == <<pred_out, y_dev, dev_logits, y_pred_dev, dev_probs, threshold,
              y_pred_dev_custom, best_f1, best_t, cells_run>>
collateVars == <<batch, collated, collate_pc>>
dsVars == <<texts, labels, glove_dict, max_length, glove_dim, dataset, items, ds_pc>>
loadVars == <<glove_file, lines_read, embeddings, load_raised, load_pc>>
fwdVars == <<model_glove_dim, fwd_batch_size, fwd_glove_emb, fwd_labels, fwd_out, fwd_pc>>
ruleVars == <<rule_probs, rule_y, rule_pred>>
predVars == <<df_test, trained_model, test_logits, test_probs, final_threshold, csv, pred_pc>>
storeVars == <<glove_store, heap, returned, store_after_load, store_pc>>
vars == <<vecVars, evalVars, collateVars, dsVars, loadVars, fwdVars,
          ruleVars, predVars, storeVars>>

\* ------------------------------------------------- text_to_avg_glove calls

VecIdle ==
    /\ text = <<>>
    /\ embeddings_dict = <<>>
    /\ embed_dim = 0
    /\ avg = NotCalled
    /\ vec_pc = "idle"

VecStart ==
    /\ text \in Texts
    /\ embeddings_dict \in UniformStores
    /\ embed_dim \in 1..MaxDim
    /\ avg = NotCalled
    /\ vec_pc = "call"

VecCall ==
    /\ vec_pc = "call"
    /\ avg' = TextToAvgGlove(text, embeddings_dict, embed_dim)
    /\ vec_pc' = "done"
    /\ UNCHANGED <<text, embeddings_dict, embed_dim>>
    /\ UNCHANGED <<evalVars, collateVars, dsVars, loadVars, fwdVars, ruleVars, predVars, storeVars>>

\* ------------------------------------------------- the evaluation cells

EvalIdle ==
    /\ pred_out = <<>>
    /\ y_dev = <<>>
    /\ dev_logits = <<>>
    /\ y_pred_dev = <<>>
    /\ dev_probs = <<>>
    /\ threshold = 0
    /\ y_pred_dev_custom = <<>>
    /\ best_f1 = InitialBestF1
    /\ best_t = 0
    /\ cells_run = {}

\* a trained model and a dev set of 1..MaxDev examples; no cell has run
EvalStart ==
    /\ \E n \in 1..MaxDev :
          /\ pred_out \in [1..n -> [1..2 -> LogitVals]]
          /\ y_dev \in [1..n -> {0, 1}]
    /\ dev_logits = <<>>
    /\ y_pred_dev = <<>>
    /\ dev_probs = <<>>
    /\ threshold = 0
    /\ y_pred_dev_custom = <<>>
    /\ best_f1 = InitialBestF1
    /\ best_t = 0
    /\ cells_run = {}

\* lines 503-505
ArgmaxCell ==
    /\ pred_out # <<>>
    /\ dev_logits' = pred_out
    /\ y_pred_dev' = [i \in 1..Len(pred_out) |-> NpArgmax(pred_out[i])]
    /\ cells_run' = cells_run \cup {"argmax"}
    /\ UNCHANGED <<pred_out, y_dev, dev_probs, threshold, y_pred_dev_custom,
                   best_f1, best_t>>
    /\ UNCHANGED <<vecVars, collateVars, dsVars, loadVars, fwdVars, ruleVars, predVars, storeVars>>

\* lines 541-543; dev_logits must have been assigned
ThresholdCell ==
    /\ "argmax" \in cells_run
    /\ \E t \in TunedThresholds :
          /\ threshold' = t
          /\ dev_probs' = [i \in 1..Len(dev_logits) |-> SoftmaxClass1(dev_logits[i])]
          /\ y_pred_dev_custom' = PredictAt(dev_probs', t)
    /\ cells_run' = cells_run \cup {"threshold"}
    /\ UNCHANGED <<pred_out, y_dev, dev_logits, y_pred_dev, best_f1, best_t>>
    /\ UNCHANGED <<vecVars, collateVars, dsVars, loadVars, fwdVars, ruleVars, predVars, storeVars>>

\* lines 637-644; dev_probs must have been assigned
SweepCell ==
    /\ "threshold" \in cells_run
    /\ LET r == Sweep(dev_probs, y_dev)
       IN  /\ best_f1' = r[1]
           /\ best_t' = r[2]
    /\ cells_run' = cells_run \cup {"sweep"}
    /\ UNCHANGED <<pred_out, y_dev, dev_logits, y_pred_dev, dev_probs, threshold,
                   y_pred_dev_custom>>
    /\ UNCHANGED <<vecVars, collateVars, dsVars, loadVars, fwdVars, ruleVars, predVars, storeVars>>

\* ------------------------------------------------------------- collate_fn

CollateIdle ==
    /\ batch = <<>>
    /\ collated = NotCalled
    /\ collate_pc = "idle"

\* the data loader hands collate_fn 1..MaxBatch examples
CollateStart ==
    /\ \E n \in 1..MaxBatch : batch \in [1..n -> BatchItems]
    /\ collated = NotCalled
    /\ collate_pc = "call"

CollateCall ==
    /\ collate_pc = "call"
    /\ collated' = CollateFn(batch)
    /\ collate_pc' = "done"
    /\ UNCHANGED batch
    /\ UNCHANGED <<vecVars, evalVars, dsVars, loadVars, fwdVars, ruleVars, predVars, storeVars>>

\* ------------------------------------------------------ BertGloveDataset

DsIdle ==
    /\ texts = <<>>
    /\ labels = NoneValue
    /\ glove_dict = <<>>
    /\ max_length = 0
    /\ glove_dim = 0
    /\ dataset = NotCalled
    /\ items = <<>>
    /\ ds_pc = "idle"

\* the arguments of BertGloveDataset(...): 1..MaxTexts texts; no labels, or
\* a label sequence of any length up to one more than the texts
DsStart ==
    /\ \E n \in 1..MaxTexts :
          /\ texts \in [1..n -> DatasetTexts]
          /\ labels \in {NoneValue} \cup
                       {Some(l) : l \in UNION {[1..k -> {0, 1}] : k \in 0..(n + 1)}}
    /\ glove_dict \in DatasetStores
    /\ max_length \in 3..MaxSeqLen
    /\ glove_dim \in 1..MaxDim
    /\ dataset = NotCalled
    /\ items = <<>>
    /\ ds_pc = "new"

\* lines 146-165
DatasetInit ==
    /\ ds_pc = "new"
    /\ dataset' = DatasetNew(texts, labels, glove_dict, max_length, glove_dim)
    /\ ds_pc' = IF dataset'.raised = None THEN "built" ELSE "raised"
    /\ UNCHANGED <<texts, labels, glove_dict, max_length, glove_dim, items>>
    /\ UNCHANGED <<vecVars, evalVars, collateVars, loadVars, fwdVars, ruleVars, predVars, storeVars>>

\* lines 170-178, for an index the sampler draws: 0 <= idx < len(dataset)
GetItem ==
    /\ ds_pc = "built"
    /\ \E idx \in 0..(Len(texts) - 1) :
          items' = [i \in DOMAIN items \cup {idx} |->
                      IF i = idx THEN DatasetGetItem(dataset.value, labels, idx)
                      ELSE items[i]]
    /\ UNCHANGED <<texts, labels, glove_dict, max_length, glove_dim, dataset, ds_pc>>
    /\ UNCHANGED <<vecVars, evalVars, collateVars, loadVars, fwdVars, ruleVars, predVars, storeVars>>

\* ------------------------------------------------- load_glove_embeddings

LoadIdle ==
    /\ glove_file = <<>>
    /\ lines_read = 0
    /\ embeddings = <<>>
    /\ load_raised = None
    /\ load_pc = "idle"

\* a file of 0..MaxLines lines; embeddings = {} (line 30)
LoadStart ==
    /\ \E n \in 0..MaxLines : glove_file \in [1..n -> FileLines]
    /\ lines_read = 0
    /\ embeddings = <<>>
    /\ load_raised = None
    /\ load_pc = "reading"

\* one turn of the loop of lines 32-36
LoadReadLine ==
    /\ load_pc = "reading"
    /\ lines_read < Len(glove_file)
    /\ LET r == LoadLine(embeddings, glove_file[lines_read + 1])
       IN  IF r.raised = None
           THEN /\ embeddings' = r.value
                /\ lines_read' = lines_read + 1
                /\ UNCHANGED <<load_raised, load_pc>>
           ELSE /\ load_raised' = r.raised
                /\ load_pc' = "raised"
                /\ UNCHANGED <<embeddings, lines_read>>
    /\ UNCHANGED glove_file
    /\ UNCHANGED <<vecVars, evalVars, collateVars, dsVars, fwdVars, ruleVars, predVars, storeVars>>

\* line 37, after the last line
LoadReturn ==
    /\ load_pc = "reading"
    /\ lines_read = Len(glove_file)
    /\ load_pc' = "returned"
    /\ UNCHANGED <<glove_file, lines_read, embeddings, load_raised>>
    /\ UNCHANGED <<vecVars, evalVars, collateVars, dsVars, fwdVars, ruleVars, predVars, storeVars>>

\* ------------------------------------------------- BertWithGlove.forward

FwdIdle ==
    /\ model_glove_dim = 0
    /\ fwd_batch_size = 0
    /\ fwd_glove_emb = NoneValue
    /\ fwd_labels = FALSE
    /\ fwd_out = NotCalled
    /\ fwd_pc = "idle"

\* a model built with glove_dim (lines 261-269) and the arguments of one
\* forward call
FwdStart ==
    /\ model_glove_dim \in GloveDims
    /\ fwd_batch_size \in 1..MaxBatch
    /\ fwd_glove_emb \in {NoneValue} \cup {Some(<<fwd_batch_size, w>>) : w \in GloveDims}
    /\ fwd_labels \in BOOLEAN
    /\ fwd_out = NotCalled
    /\ fwd_pc = "call"

\* lines 271-301
ForwardCall ==
    /\ fwd_pc = "call"
    /\ fwd_out' = Forward(model_glove_dim, fwd_batch_size, fwd_glove_emb, fwd_labels)
    /\ fwd_pc' = "done"
    /\ UNCHANGED <<model_glove_dim, fwd_batch_size, fwd_glove_emb, fwd_labels>>
    /\ UNCHANGED <<vecVars, evalVars, collateVars, dsVars, loadVars, ruleVars, predVars, storeVars>>

\* ------------------------------------------------------ the decision rule

RuleIdle ==
    /\ rule_probs = <<>>
    /\ rule_y = <<>>
    /\ rule_pred = <<>>

\* 1..MaxDev examples with their class-1 probabilities and their labels
RuleStart ==
    /\ \E n \in 1..MaxDev :
          /\ rule_probs \in [1..n -> ProbVals]
          /\ rule_y \in [1..n -> {0, 1}]
    /\ rule_pred = <<>>

\* lines 543 and 640: (probs >= t).astype(int) at one threshold
RuleApply ==
    /\ rule_probs # <<>>
    /\ \E t \in RuleThresholds :
          rule_pred' = [u \in DOMAIN rule_pred \cup {t} |->
                          IF u = t THEN PredictAt(rule_probs, t) ELSE rule_pred[u]]
    /\ UNCHANGED <<rule_probs, rule_y>>
    /\ UNCHANGED <<vecVars, evalVars, collateVars, dsVars, loadVars, fwdVars, predVars, storeVars>>

\* ------------------------------------------------ the test prediction cell

PredIdle ==
    /\ df_test = <<>>
    /\ trained_model = <<>>
    /\ test_logits = <<>>
    /\ test_probs = <<>>
    /\ final_threshold = 0
    /\ csv = NotCalled
    /\ pred_pc = "idle"

\* df_test as read (lines 98-102) and a trained model; the cell has not run
PredStart ==
    /\ \E n \in 1..MaxTexts : df_test \in [1..n -> TestRecords]
    /\ trained_model \in TrainedModels
    /\ test_logits = <<>>
    /\ test_probs = <<>>
    /\ final_threshold = 0
    /\ csv = NotCalled
    /\ pred_pc = "ready"

\* lines 581-595
TestPredictionCell ==
    /\ pred_pc = "ready"
    /\ test_logits' = TrainerPredict(trained_model, [i \in 1..Len(df_test) |-> df_test[i].text])
    /\ test_probs' = [i \in 1..Len(test_logits') |-> SoftmaxClass1(test_logits'[i])]
    /\ final_threshold' = FinalThreshold
    /\ LET label == PredictAt(test_probs', final_threshold')
       IN  df_test' = [i \in 1..Len(df_test) |->
                         [PMID |-> df_test[i].PMID, text |-> df_test[i].text,
                          Label |-> label[i]]]
    /\ csv' = Returned(ToCsv(df_test'))
    /\ pred_pc' = "done"
    /\ UNCHANGED trained_model
    /\ UNCHANGED <<vecVars, evalVars, collateVars, dsVars, loadVars, fwdVars, ruleVars, storeVars>>

\* ------------------------------------------------------- the loaded store

StoreIdle ==
    /\ glove_store = <<>>
    /\ heap = <<>>
    /\ returned = NotCalled
    /\ store_after_load = <<>>
    /\ store_pc = "idle"

\* glove_dict = load_glove_embeddings(GLOVE_PATH) has returned (line 78)
StoreStart ==
    /\ store_after_load \in LoadedStores
    /\ glove_store = StoreObjects(store_after_load).dict
    /\ heap = StoreObjects(store_after_load).heap
    /\ returned = NotCalled
    /\ store_pc = "loaded"

\* one call text_to_avg_glove(text, glove_dict, embed_dim)
StoreVecCall ==
    /\ store_pc = "loaded"
    /\ \E t \in StoreTexts, d \in 1..MaxDim :
          LET c == TextToAvgGloveObj(t, Compact([dict |-> glove_store, heap |-> heap]), d)
          IN  /\ glove_store' = c.m.dict
              /\ heap' = c.m.heap
              /\ returned' = IF c.result.raised = None
                             THEN Returned(<<c.result.value>>)
                             ELSE c.result
    /\ UNCHANGED <<store_after_load, store_pc>>
    /\ UNCHANGED <<vecVars, evalVars, collateVars, dsVars, loadVars, fwdVars, ruleVars, predVars>>

\* one construction BertGloveDataset(texts, glove_dict=glove_dict, ...):
\* lines 154-156, self.glove_embs
StoreDatasetNew ==
    /\ store_pc = "loaded"
    /\ \E n \in 1..MaxTexts, d \in 1..MaxDim :
          \E ts \in [1..n -> StoreTexts] :
              LET c == GloveEmbsFrom(ts, Compact([dict |-> glove_store, heap |-> heap]), d, <<>>)
              IN  /\ glove_store' = c.m.dict
                  /\ heap' = c.m.heap
                  /\ returned' = c.result
    /\ UNCHANGED <<store_after_load, store_pc>>
    /\ UNCHANGED <<vecVars, evalVars, collateVars, dsVars, loadVars, fwdVars, ruleVars, predVars>>

\* ------------------------------------------------------ the specifications

VecInit == VecStart /\ EvalIdle /\ CollateIdle /\ DsIdle /\ LoadIdle /\ FwdIdle /\ RuleIdle /\ PredIdle /\ StoreIdle
VecNext == VecCall
SpecVec == VecInit /\ [][VecNext]_vars

CollateInit == CollateStart /\ VecIdle /\ EvalIdle /\ DsIdle /\ LoadIdle /\ FwdIdle /\ RuleIdle /\ PredIdle /\ StoreIdle
CollateNext == CollateCall
SpecCollate == CollateInit /\ [][CollateNext]_vars

DsInit == DsStart /\ VecIdle /\ EvalIdle /\ CollateIdle /\ LoadIdle /\ FwdIdle /\ RuleIdle /\ PredIdle /\ StoreIdle
DsNext == DatasetInit \/ GetItem
SpecDataset == DsInit /\ [][DsNext]_vars

LoadInit == LoadStart /\ VecIdle /\ EvalIdle /\ CollateIdle /\ DsIdle /\ FwdIdle /\ RuleIdle /\ PredIdle /\ StoreIdle
LoadNext == LoadReadLine \/ LoadReturn
SpecLoad == LoadInit /\ [][LoadNext]_vars

FwdInit == FwdStart /\ VecIdle /\ EvalIdle /\ CollateIdle /\ DsIdle /\ LoadIdle /\ RuleIdle /\ PredIdle /\ StoreIdle
FwdNext == ForwardCall
SpecForward == FwdInit /\ [][FwdNext]_vars

RuleInit == RuleStart /\ VecIdle /\ EvalIdle /\ CollateIdle /\ DsIdle /\ LoadIdle /\ FwdIdle /\ PredIdle /\ StoreIdle
RuleNext == RuleApply
SpecRule == RuleInit /\ [][RuleNext]_vars

PredInit == PredStart /\ VecIdle /\ EvalIdle /\ CollateIdle /\ DsIdle /\ LoadIdle /\ FwdIdle /\ RuleIdle /\ StoreIdle
PredNext == TestPredictionCell
SpecPredict == PredInit /\ [][PredNext]_vars

StoreInit == StoreStart /\ VecIdle /\ EvalIdle /\ CollateIdle /\ DsIdle /\ LoadIdle /\ FwdIdle /\ RuleIdle /\ PredIdle
StoreNext == StoreVecCall \/ StoreDatasetNew
SpecStore == StoreInit /\ [][StoreNext]_vars

EvalInit == EvalStart /\ VecIdle /\ CollateIdle /\ DsIdle /\ LoadIdle /\ FwdIdle /\ RuleIdle /\ PredIdle /\ StoreIdle
EvalNext == ArgmaxCell \/ ThresholdCell \/ SweepCell
SpecEval == EvalInit /\ [][EvalNext]_vars

\* the notebook from the dev evaluation on, with one dev example and one
\* test record: the evaluation cells and the test prediction cell, each
\* runnable once the names it reads are assigned
PipelineInit ==
    /\ EvalStart /\ Len(y_dev) = 1
    /\ PredStart /\ Len(df_test) = 1
    /\ VecIdle /\ CollateIdle /\ DsIdle /\ LoadIdle /\ FwdIdle /\ RuleIdle /\ StoreIdle
PipelineNext == EvalNext \/ PredNext
SpecPipeline == PipelineInit /\ [][PipelineNext]_vars

\* every component, each started on its own
Init ==
    \/ VecInit \/ CollateInit \/ DsInit \/ LoadInit \/ FwdInit \/ EvalInit
    \/ RuleInit \/ PredInit \/ StoreInit \/ PipelineInit
Next ==
    \/ VecNext \/ CollateNext \/ DsNext \/ LoadNext \/ FwdNext \/ EvalNext
    \/ RuleNext \/ PredNext \/ StoreNext
Spec == Init /\ [][Next]_vars

\* ------------------------------------------------------- claims C1 and C2

\* the positions of the tokens of `t` that the store holds
HitPositions(t, store) ==
    {j \in 1..Len(Split(t)) : Split(t)[j] \in DOMAIN store}

RECURSIVE SumOver(_, _)
SumOver(S, f) ==
    IF S = {} THEN 0
    ELSE LET x == CHOOSE y \in S : TRUE
         IN  f[x] + SumOver(S \ {x}, f)

\* " ".join(tokens)
RECURSIVE Join(_)
Join(tokens) ==
    IF tokens = <<>> THEN <<>>
    ELSE IF Len(tokens) = 1 THEN Head(tokens)
    ELSE Head(tokens) \o <<Whitespace>> \o Join(Tail(tokens))

Permutations(n) ==
    {p \in [1..n -> 1..n] : \A a, b \in 1..n : p[a] = p[b] => a = b}

\* C1: when the text has at least one token in the store, the result is the
\* element-wise arithmetic mean of the vectors of the hit occurrences (tokens
\* outside the store add nothing to the sum nor to the count), and every
\* reordering of the text's tokens gives the same result.
C1_MeanOfHits ==
    LET tokens == Split(text)
        hits == HitPositions(text, embeddings_dict)
        d == Len(embeddings_dict[tokens[CHOOSE j \in hits : TRUE]])
    IN  (vec_pc = "done" /\ hits # {}) =>
            /\ avg.raised = None
            /\ DOMAIN avg.value = 1..d
            /\ \A i \in 1..d :
                  /\ avg.value[i][2] > 0
                  /\ avg.value[i][1] * Cardinality(hits) =
                        avg.value[i][2]
                          * SumOver(hits, [j \in hits |-> embeddings_dict[tokens[j]][i]])
            /\ \A p \in Permutations(Len(tokens)) :
                  TextToAvgGlove(Join([k \in 1..Len(tokens) |-> tokens[p[k]]]),
                                 embeddings_dict, embed_dim) = avg

\* the store {cow: [1,0], gene: [0,1]} and the text "cow gene unknown", with
\* c, g, u standing for the three words: the result is [0.5, 0.5]
C1_Witness ==
    /\ vec_pc = "done"
    /\ text = <<"c", " ", "g", " ", "u">>
    /\ DOMAIN embeddings_dict = VocabKeys
    /\ embeddings_dict[<<"c">>] = <<1, 0>>
    /\ embeddings_dict[<<"g">>] = <<0, 1>>
    /\ avg = Returned(<<<<1, 2>>, <<1, 2>>>>)

\* C2: when no token of the text is in the store (the empty and the
\* whitespace-only text included), the call does not fail and returns the
\* vector of embed_dim zeros.
C2_ZeroVectorOnNoHit ==
    (vec_pc = "done" /\ HitPositions(text, embeddings_dict) = {}) =>
        /\ avg.raised = None
        /\ DOMAIN avg.value = 1..embed_dim
        /\ \A i \in 1..embed_dim : avg.value[i] = <<0, 1>>

\* an out-of-vocabulary text against a non-empty store whose dimension is not
\* embed_dim
C2_Witness ==
    /\ vec_pc = "done"
    /\ text = <<"u", " ", "c", "g">>
    /\ DOMAIN embeddings_dict = VocabKeys
    /\ Len(embeddings_dict[<<"c">>]) = 2
    /\ embed_dim = 1
    /\ avg = Returned(<<<<0, 1>>>>)

\* ------------------------------------------------------- claims C3 and C4

CandidateSet == {Candidates[k] : k \in DOMAIN Candidates}

\* the F1 of the decision rule "1 iff probability >= t" on the dev set
F1At(t) == F1Score(y_dev, PredictAt(dev_probs, t))

\* C3: the sweep returns one of the candidates, the lowest one whose F1 is
\* the greatest F1 of any candidate, together with that F1; when every
\* candidate has F1 = 0 this is the first candidate.
C3_SweepReturnsLowestBestCandidate ==
    "sweep" \in cells_run =>
        /\ best_t \in CandidateSet
        /\ best_f1 = F1At(best_t)
        /\ \A t \in CandidateSet : ~FracLess(best_f1, F1At(t))
        /\ \A t \in CandidateSet : t < best_t => FracLess(F1At(t), best_f1)

\* what the sweep does return: as C3 states when some candidate has F1 > 0;
\* the initial pair (0, 0.5), 0.5 being no candidate, when none has
C3_SweepAsCoded ==
    "sweep" \in cells_run =>
        IF \E t \in CandidateSet : FracLess(<<0, 1>>, F1At(t))
        THEN /\ best_t \in CandidateSet
             /\ best_f1 = F1At(best_t)
             /\ \A t \in CandidateSet : ~FracLess(best_f1, F1At(t))
             /\ \A t \in CandidateSet : t < best_t => FracLess(F1At(t), best_f1)
        ELSE /\ best_t = InitialBestT
             /\ best_t \notin CandidateSet
             /\ best_f1 = <<0, 1>>

BothRulesRan == {"argmax", "threshold"} \subseteq cells_run /\ threshold = 50

\* C4 as stated: on every example the argmax rule and the rule "1 iff the
\* softmax probability of class 1 is >= 0.5" predict the same label, equal
\* logits included.
C4_ArgmaxEqualsHalfThreshold ==
    BothRulesRan =>
        \A i \in 1..Len(dev_logits) : y_pred_dev[i] = y_pred_dev_custom[i]

\* C4 as amended: the threshold rule at 0.5 predicts 1 iff logit1 >= logit0;
\* the argmax rule predicts the same label when the two logits differ, and
\* predicts 0 (the threshold rule 1) when they are equal.
C4_ArgmaxVersusHalfThreshold ==
    BothRulesRan =>
        \A i \in 1..Len(dev_logits) :
            LET logit0 == dev_logits[i][1]
                logit1 == dev_logits[i][2]
            IN  /\ y_pred_dev_custom[i] = (IF logit1 >= logit0 THEN 1 ELSE 0)
                /\ logit0 # logit1 => y_pred_dev[i] = y_pred_dev_custom[i]
                /\ logit0 = logit1 => y_pred_dev[i] = 0 /\ y_pred_dev_custom[i] = 1

\* a dev set with a tie and with both strict orders of the logits
C4_Witness ==
    /\ BothRulesRan
    /\ \E i \in 1..Len(dev_logits) : dev_logits[i][1] = dev_logits[i][2]
    /\ \E i \in 1..Len(dev_logits) :
          dev_logits[i][1] < dev_logits[i][2] /\ y_pred_dev[i] = 1
    /\ Len(dev_logits) = 2

\* ------------------------------------------------------- claims C5 and C9

Labeled(x) == "labels" \in DOMAIN x

Heterogeneous(b) == \E i, j \in 1..Len(b) : Labeled(b[i]) /\ ~Labeled(b[j])

\* C5: collate_fn fails on every batch in which two examples differ in
\* having a label, wherever the unlabeled example sits.
C5_HeterogeneousBatchFails ==
    (collate_pc = "done" /\ Heterogeneous(batch)) => collated.raised # None

\* what collate_fn does with such a batch: KeyError when the first example
\* is labeled, a batch with labels None when it is not
C5_AsCoded ==
    (collate_pc = "done" /\ Heterogeneous(batch)) =>
        IF Labeled(batch[1])
        THEN collated.raised = KeyError
        ELSE collated.raised = None /\ collated.value.labels = NoneValue

\* C9: for K labeled examples every field of the batch has K rows, and row i
\* of every field is the field of example i.
C9_StackKeepsOrder ==
    (collate_pc = "done" /\ \A i \in 1..Len(batch) : Labeled(batch[i])) =>
        /\ collated.raised = None
        /\ ~collated.value.labels.is_none
        /\ LET out == collated.value
               K == Len(batch)
           IN  /\ Len(out.input_ids) = K
               /\ Len(out.attention_mask) = K
               /\ Len(out.glove_emb) = K
               /\ Len(out.labels.v) = K
               /\ \A i \in 1..K :
                     /\ out.input_ids[i] = batch[i].input_ids
                     /\ out.attention_mask[i] = batch[i].attention_mask
                     /\ out.glove_emb[i] = batch[i].glove_emb
                     /\ out.labels.v[i] = batch[i].labels

\* three labeled examples, no two alike
C9_Witness ==
    /\ collate_pc = "done"
    /\ Len(batch) = 3
    /\ \A i \in 1..3 : Labeled(batch[i])
    /\ batch[1].labels = 1 /\ batch[2].labels = 0 /\ batch[3].labels = 0
    /\ batch[1].input_ids # batch[2].input_ids
    /\ batch[2].glove_emb # batch[3].glove_emb
    /\ collated.raised = None
    /\ collated.value.labels.v = <<1, 0, 0>>

\* ------------------------------------------------------ claims C6 and C10

LabelsMismatch == ~labels.is_none /\ Len(labels.v) # Len(texts)

\* C6: a label sequence whose length is not the number of texts makes the
\* construction fail with LengthMismatch: the dataset is never built and no
\* example is produced.
C6_LengthMismatchFailsAtConstruction ==
    LabelsMismatch =>
        /\ ds_pc \in {"new", "raised"}
        /\ ds_pc = "raised" => dataset.raised = "LengthMismatch"
        /\ items = <<>>

\* what the class does: __init__ never looks at the length; __getitem__
\* raises IndexError exactly for the indices past a shorter label sequence,
\* and the extra labels of a longer one are never read
C6_AsCoded ==
    LabelsMismatch =>
        /\ ds_pc \in {"new", "built"}
        /\ \A idx \in DOMAIN items :
              IF idx >= Len(labels.v)
              THEN items[idx].raised = IndexError
              ELSE items[idx].raised = None /\ items[idx].value.labels = labels.v[idx + 1]

\* the number of real positions of an example: [CLS], the subword tokens of
\* the text (one per non-whitespace character) and [SEP], cut to max_length
RealPositions(t) ==
    Min(Cardinality({k \in 1..Len(t) : t[k] # Whitespace}) + 2, max_length)

EncodingShapeOk(x, t) ==
    /\ Len(x.input_ids) = max_length
    /\ Len(x.attention_mask) = max_length
    /\ \A k \in 1..max_length :
          /\ x.attention_mask[k] = (IF k <= RealPositions(t) THEN 1 ELSE 0)
          /\ x.input_ids[k] = PadId <=> k > RealPositions(t)

Produced(idx) == ds_pc = "built" /\ idx \in DOMAIN items /\ items[idx].raised = None

StoreDimOf(st) == Len(st[CHOOSE w \in DOMAIN st : TRUE])

\* C10 as stated: every produced example has input_ids and attention_mask of
\* max_length entries, mask 1 on the real positions and 0 on the padding, and
\* glove_emb of glove_dim entries.
C10_ExampleShapes ==
    \A idx \in 0..(Len(texts) - 1) :
        Produced(idx) =>
            /\ EncodingShapeOk(items[idx].value, texts[idx + 1])
            /\ Len(items[idx].value.glove_emb) = glove_dim

\* C10 as amended: the same for input_ids and attention_mask; glove_emb has
\* glove_dim entries when the text has no token in the store, and as many
\* entries as the store's vectors have when it has one (glove_dim entries,
\* when the store's dimension is glove_dim).
C10_ExampleShapesAmended ==
    \A idx \in 0..(Len(texts) - 1) :
        Produced(idx) =>
            /\ EncodingShapeOk(items[idx].value, texts[idx + 1])
            /\ Len(items[idx].value.glove_emb) =
                  (IF HitPositions(texts[idx + 1], glove_dict) = {}
                   THEN glove_dim
                   ELSE StoreDimOf(glove_dict))
            /\ StoreDimOf(glove_dict) = glove_dim =>
                  Len(items[idx].value.glove_emb) = glove_dim

\* "c" (3 positions, padded) and "cgu" (5 positions, truncated, no token in
\* the store) under max_length = 4, store dimension = glove_dim = 2
C10_Witness ==
    /\ texts = <<(<<"c">>), <<"c", "g", "u">>>>
    /\ max_length = 4
    /\ glove_dim = 2
    /\ StoreDimOf(glove_dict) = 2
    /\ Produced(0) /\ Produced(1)
    /\ items[0].value.input_ids = <<ClsId, 10, SepId, PadId>>
    /\ items[0].value.attention_mask = <<1, 1, 1, 0>>
    /\ items[0].value.glove_emb = <<<<1, 1>>, <<1, 1>>>>
    /\ items[1].value.attention_mask = <<1, 1, 1, 1>>
    /\ items[1].value.glove_emb = <<<<0, 1>>, <<0, 1>>>>

\* ------------------------------------------------------- claims C7 and C8

FieldCounts == {Len(Split(glove_file[i])) : i \in 1..Len(glove_file)}

LineWellFormed(line) ==
    /\ Len(Split(line)) >= 2
    /\ \A k \in 2..Len(Split(line)) : IsNumeric(Split(line)[k])

\* C7: the load returns a store only if every line is a token followed by
\* the same number D of numeric values; the vectors of a returned store all
\* have dimension D.
C7_LoadReturnsOnlyWellFormed ==
    load_pc = "returned" =>
        /\ \A i \in 1..Len(glove_file) : LineWellFormed(glove_file[i])
        /\ Cardinality(FieldCounts) <= 1
        /\ \A w1, w2 \in DOMAIN embeddings : Len(embeddings[w1]) = Len(embeddings[w2])

\* what the load does: it fails only on a line without any field
\* (IndexError) or with a non-numeric value (ValueError); a token-only line
\* and lines of different field counts are stored
C7_AsCoded ==
    LET bad(i) == \/ Split(glove_file[i]) = <<>>
                  \/ \E k \in 2..Len(Split(glove_file[i])) : ~IsNumeric(Split(glove_file[i])[k])
    IN  /\ load_pc = "returned" => \A i \in 1..Len(glove_file) : ~bad(i)
        /\ load_pc = "raised" => bad(lines_read + 1)
        /\ \A i \in 1..lines_read :
              /\ ~bad(i)
              /\ Split(glove_file[i])[1] \in DOMAIN embeddings

\* C8: with glove_emb absent, forward puts in zeros of model_glove_dim
\* columns, so the concatenation has HiddenSize + model_glove_dim columns and
\* the logits have shape (batch, 2); the call does not fail.
C8_AbsentGloveGivesLogits ==
    (fwd_pc = "done" /\ fwd_glove_emb.is_none) =>
        /\ fwd_out.raised = None
        /\ fwd_out.value.combined = <<fwd_batch_size, HiddenSize + model_glove_dim>>
        /\ fwd_out.value.logits = <<fwd_batch_size, NumLabels>>

\* what forward does: the zeros always have 300 columns, so the call returns
\* exactly when the model was built with glove_dim = 300
C8_AsCoded ==
    (fwd_pc = "done" /\ fwd_glove_emb.is_none) =>
        IF model_glove_dim = FallbackGloveDim
        THEN /\ fwd_out.raised = None
             /\ fwd_out.value.logits = <<fwd_batch_size, NumLabels>>
        ELSE fwd_out.raised = RuntimeError

\* ------------------------------------------------------------- claim C11

Positives(pred) == {i \in 1..Len(pred) : pred[i] = 1}

\* C11: under the rule "1 iff probability >= t", threshold 0.0 predicts
\* every example positive, a threshold above every probability predicts
\* every example negative, and for t1 <= t2 the examples predicted positive
\* at t2 are among those predicted positive at t1, so that the recall at t2
\* is at most the recall at t1.
C11_ThresholdMonotone ==
    \A t1 \in DOMAIN rule_pred :
        /\ t1 = 0 => \A i \in 1..Len(rule_probs) : rule_pred[t1][i] = 1
        /\ (\A i \in 1..Len(rule_probs) : FracLess(rule_probs[i], <<t1, 100>>))
              => \A i \in 1..Len(rule_probs) : rule_pred[t1][i] = 0
        /\ \A t2 \in DOMAIN rule_pred :
              t1 <= t2 =>
                  /\ Positives(rule_pred[t2]) \subseteq Positives(rule_pred[t1])
                  /\ ~FracLess(RecallScore(rule_y, rule_pred[t1]),
                               RecallScore(rule_y, rule_pred[t2]))

\* probabilities 0 and 0.25 of two positive examples, tried at every
\* threshold: all positive at 0.0, one at 0.25, none from 0.5 on
C11_Witness ==
    /\ rule_probs = <<(<<0, 1>>), <<1, 4>>>>
    /\ rule_y = <<1, 1>>
    /\ DOMAIN rule_pred = RuleThresholds
    /\ rule_pred[0] = <<1, 1>>
    /\ rule_pred[25] = <<0, 1>>
    /\ rule_pred[50] = <<0, 0>>
    /\ rule_pred[101] = <<0, 0>>
    /\ RecallScore(rule_y, rule_pred[25]) = <<1, 2>>

\* ------------------------------------------------------------- claim C12

\* the class-1 probability the trained model gives a record
ProbOfRecord(rec) == SoftmaxClass1(trained_model[rec.text])

\* C12: the file written has exactly one row per record of df_test, in the
\* order of df_test, and row i holds the PMID of record i and the label 1 if
\* the class-1 probability of record i is >= the threshold, else 0.
C12_OneRowPerRecordInOrder ==
    pred_pc = "done" =>
        /\ csv.raised = None
        /\ Len(csv.value.rows) = Len(df_test)
        /\ \A i \in 1..Len(df_test) :
              /\ csv.value.rows[i][1] = df_test[i].PMID
              /\ csv.value.rows[i][2] =
                    (IF ProbOfRecord(df_test[i])[1] * 100
                          >= final_threshold * ProbOfRecord(df_test[i])[2]
                     THEN "1" ELSE "0")

\* two records with different PMIDs and texts, the model putting the first
\* above the threshold and the second below it
C12_Witness ==
    /\ pred_pc = "done"
    /\ Len(df_test) = 2
    /\ df_test[1].PMID = "007" /\ df_test[1].text = <<"c">>
    /\ df_test[2].PMID = "42" /\ df_test[2].text = <<"u">>
    /\ trained_model[<<"c">>] = <<0, 1>>
    /\ trained_model[<<"u">>] = <<1, 0>>
    /\ csv.value.rows = <<(<<"007", "1">>), <<"42", "0">>>>

\* ------------------------------------------------------------- claim C13

StoreIds == {glove_store[w] : w \in DOMAIN glove_store}

\* C13: after any sequence of text_to_avg_glove calls and dataset
\* constructions the store has exactly the keys it had after the load, each
\* with the vector it had (a miss inserts no key), and no array given back
\* is an array of the store.
C13_StoreNeverChanges ==
    store_pc = "loaded" =>
        /\ DOMAIN glove_store = DOMAIN store_after_load
        /\ \A w \in DOMAIN glove_store : heap[glove_store[w]] = store_after_load[w]
        /\ returned.raised = None =>
              \A i \in 1..Len(returned.value) : returned.value[i] \notin StoreIds

\* a dataset built on "cgu" (no token in the store) and "c" (one hit, whose
\* average has the values of the stored vector) over the store
\* {c: [1, 0], g: [0, 1]}
C13_Witness ==
    /\ DOMAIN store_after_load = VocabKeys
    /\ store_after_load[<<"c">>] = <<1, 0>>
    /\ store_after_load[<<"g">>] = <<0, 1>>
    /\ returned.raised = None
    /\ Len(returned.value) = 2
    /\ heap[returned.value[1]] = <<<<0, 1>>, <<0, 1>>>>
    /\ heap[returned.value[2]] = <<<<1, 1>>, <<0, 1>>>>
    /\ returned.value[2] # glove_store[<<"c">>]

\* ------------------------------------------------------------- claim C14

\* C14: when the final predictions have been produced, the threshold sweep
\* on the dev probabilities has completed, and the threshold the predictions
\* were made with is the one the sweep selected.
C14_CalibratedThresholdIsApplied ==
    pred_pc = "done" =>
        /\ "sweep" \in cells_run
        /\ final_threshold = best_t

\* what the notebook does: the test prediction cell reads none of the names
\* the sweep assigns, so it runs whether or not the sweep has (in the
\* notebook it stands before the sweep cell), and its threshold is the
\* literal of line 592 whatever the sweep selects
C14_AsCoded ==
    pred_pc = "done" =>
        /\ final_threshold = FinalThreshold
        /\ \A i \in 1..Len(df_test) :
              df_test[i].Label = PredictAt(test_probs, FinalThreshold)[i]

====
